---- MODULE Spec2Model ----
(***************************************************************************)
(* A model of the MovieLens data-preparation utilities:                    *)
(*   data_fetching.py   download_and_extract_movielens_1m, create_user_splits *)
(*   mapping_tables.py  age_mapping, occupation_mapping                    *)
(*                                                                         *)
(* The file system is modelled by what the code tests and writes: whether  *)
(* a path exists and, for the archive and the extraction directory, whether*)
(* the content is complete.  The library calls are modelled by what they do*)
(* with their arguments: train_test_split computes its two sizes as        *)
(* sklearn's _validate_shuffle_split does and cuts a permutation of the    *)
(* row indices drawn from RandomState(seed); the permutation is unknown    *)
(* but a function of (seed, n), so the model draws it once and keeps it.   *)
(***************************************************************************)
EXTENDS Integers, Sequences, FiniteSets, TLC

VARIABLES
    data_dir,       \* acquisition: <dir> exists
    zip_file,       \* <dir>/ml-1m.zip: "absent", "partial" or "complete"
    extraction,     \* <dir>/ml-1m:     "absent", "partial" or "complete"
    transport,      \* counters of a mock transport: calls, fetches, extractions, faults
    acq_result,     \* how the latest acquisition call ended
    split_dir,      \* splits: the target directory exists
    files,          \* train_users.csv, val_users.csv, test_users.csv
    rng,            \* rng[seed][n]: RandomState(seed).permutation(n), once drawn
    written,        \* arguments of the latest successful create_user_splits
    split_result,   \* how the latest create_user_splits ended
    prior,          \* how the latest successful invocation relates to the one before
    sizes,          \* row counts of the three files for an input of U distinct ids
    lookup          \* the mapping returned by the latest call, and a key looked up in it

vars == <<data_dir, zip_file, extraction, transport, acq_result,
          split_dir, files, rng, written, split_result, prior, sizes, lookup>>

acq_vars == <<data_dir, zip_file, extraction, transport, acq_result>>
split_vars == <<split_dir, files, rng, written, split_result, prior>>

----------------------------------------------------------------------------
(* Bounds *)

\* acquisition calls in one behaviour
MaxCalls == 6
\* rows of an input table
MaxRows == 4
\* rows of the input table of a single invocation
MaxRowsOnce == 5
\* distinct ids of an input whose file sizes are computed
MaxUsers == 100
\* largest code looked up in a mapping
MaxCode == 60

\* the user ids input tables are made of
UserIds == {1, 2, 3}
\* the user ids the table of a single invocation is made of
MoreUserIds == {1, 2, 3, 4, 5}
\* the most distinct ids a table has
MostIds == Cardinality(UserIds \cup MoreUserIds)
\* the seeds create_user_splits is called with (42 is the default, line 109)
Seeds == {42}

Range(s) == {s[i] : i \in DOMAIN s}

----------------------------------------------------------------------------
(* download_and_extract_movielens_1m *)

\* line 44: if not os.path.exists(zip_filepath)
NeedDownloadAlways(zip) == TRUE
NeedDownloadIntegrity(zip) == zip # "complete"
need_download(zip) == zip = "absent"

\* line 52: if not os.path.exists(extraction_path)
need_extract(ext) == ext = "absent"

Count(t, fetched, extracted, fault) ==
    [calls       |-> t.calls + 1,
     fetches     |-> t.fetches + (IF fetched THEN 1 ELSE 0),
     extractions |-> t.extractions + (IF extracted THEN 1 ELSE 0),
     faults      |-> t.faults + (IF fault THEN 1 ELSE 0)]

\* A call the environment does not disturb.  zipfile.ZipFile raises BadZipFile
\* on a truncated archive (its central directory is at the end of the file).
DownloadAndExtract ==
    /\ transport.calls < MaxCalls
    /\ LET fetch == need_download(zip_file)
           zip1  == IF fetch THEN "complete" ELSE zip_file
           unzip == need_extract(extraction)
           bad   == unzip /\ zip1 # "complete"
       IN  /\ data_dir' = TRUE
           /\ zip_file' = zip1
           /\ extraction' = IF unzip /\ ~bad THEN "complete" ELSE extraction
           /\ acq_result' = IF bad THEN "BadZipFile" ELSE "ok"
           /\ transport' = Count(transport, fetch, unzip /\ ~bad, FALSE)
    /\ UNCHANGED <<split_vars, sizes, lookup>>

\* urlretrieve fails or is interrupted: nothing, or a truncated file, is left.
DownloadFails ==
    /\ transport.calls < MaxCalls
    /\ need_download(zip_file)
    /\ \E left \in {"absent", "partial"} :
          /\ data_dir' = TRUE
          /\ zip_file' = left
          /\ acq_result' = "URLError"
          /\ transport' = Count(transport, TRUE, FALSE, TRUE)
    /\ UNCHANGED <<extraction, split_vars, sizes, lookup>>

\* extractall fails or is interrupted (disk full, kill): nothing, or a
\* directory holding some of the members, is left.
ExtractionFails ==
    /\ transport.calls < MaxCalls
    /\ LET fetch == need_download(zip_file)
           zip1  == IF fetch THEN "complete" ELSE zip_file
       IN  /\ need_extract(extraction)
           /\ zip1 = "complete"
           /\ \E left \in {"absent", "partial"} :
                 /\ data_dir' = TRUE
                 /\ zip_file' = zip1
                 /\ extraction' = left
                 /\ acq_result' = "OSError"
                 /\ transport' = Count(transport, fetch, TRUE, TRUE)
    /\ UNCHANGED <<split_vars, sizes, lookup>>

----------------------------------------------------------------------------
(* create_user_splits *)

NoFile == [exists |-> FALSE, header |-> "", rows |-> <<>>]
NoFiles == [train |-> NoFile, val |-> NoFile, test |-> NoFile]

\* DataFrame.to_csv(path, index=False): mode 'w', the column name, then the rows
ToCsvAppend(old, rows) ==
    [exists |-> TRUE, header |-> "user_id", rows |-> old.rows \o rows]
to_csv(old, rows) == [exists |-> TRUE, header |-> "user_id", rows |-> rows]

\* Series.unique(): the distinct values in order of first appearance
RECURSIVE UniqueKeepLast(_)
UniqueKeepLast(col) ==
    IF col = <<>> THEN <<>>
    ELSE IF Head(col) \in Range(Tail(col)) THEN UniqueKeepLast(Tail(col))
         ELSE <<Head(col)>> \o UniqueKeepLast(Tail(col))
AppendNew(seen, x) == IF x \in Range(seen) THEN seen ELSE Append(seen, x)
RECURSIVE unique(_)
unique(col) ==
    IF col = <<>> THEN <<>>
    ELSE AppendNew(unique(SubSeq(col, 1, Len(col) - 1)), col[Len(col)])

\* test_size is a Python float.  A double in [0.125, 1) whose significand
\* ends early enough is sig * 2^-54 with sig < 2^54; sig is held as three
\* digits of 18 bits, so that the product with n stays within 31 bits.
\*   0.4 = 0x1999999999999A * 2^-54,  0.5 = 2^53 * 2^-54,  0.2 = 0xCCCCCCCCCCCCD * 2^-54
LimbBase == 262144
TestSizeFifth == [hi |-> 52428, mid |-> 209715, lo |-> 52429]
TestSizeFirst == [hi |-> 104857, mid |-> 157286, lo |-> 104858]
TestSizeSecond == [hi |-> 131072, mid |-> 0, lo |-> 0]

RECURSIVE bit_length(_)
bit_length(v) == IF v = 0 THEN 0 ELSE 1 + bit_length(v \div 2)

\* math.ceil(test_size * n): the exact product is whole + frac * 2^-54; the
\* double product keeps 53 significant bits, rounding to nearest, ties to
\* even, and so drops the fraction exactly when frac <= 2^bit_length(whole).
ceil_product(test_size, n) ==
    LET t0    == n * test_size.lo
        t1    == n * test_size.mid + t0 \div LimbBase
        t2    == n * test_size.hi + t1 \div LimbBase
        whole == t2 \div LimbBase
        exact == /\ t2 % LimbBase = 0
                 /\ t1 % LimbBase = 0
                 /\ t0 % LimbBase <= 2 ^ bit_length(whole)
    IN  IF n = 0 THEN 0
        ELSE IF whole = 0 THEN 1
        ELSE IF exact THEN whole
        ELSE whole + 1

\* sklearn _validate_shuffle_split with a float test_size and train_size None:
\* n_test = ceil(test_size * n), n_train = n - n_test, ValueError if n_train = 0
ValidateAllowEmpty(n, test_size) ==
    LET n_test == ceil_product(test_size, n)
    IN  [ok |-> TRUE, n_train |-> n - n_test, n_test |-> n_test]
validate_shuffle_split(n, test_size) ==
    LET n_test  == ceil_product(test_size, n)
        n_train == n - n_test
    IN  [ok |-> n_train # 0, n_train |-> n_train, n_test |-> n_test]

\* train_test_split(arr, test_size, random_state): with perm the permutation
\* of the indices, test is arr[perm[:n_test]], train is arr[perm[n_test:]]
TrainTestOverlap(arr, test_size, perm) ==
    LET v == validate_shuffle_split(Len(arr), test_size)
    IN  IF ~v.ok THEN [ok |-> FALSE, train |-> <<>>, test |-> <<>>]
        ELSE [ok    |-> TRUE,
              train |-> [i \in 1..v.n_train |-> arr[perm[v.n_test - 1 + i]]],
              test  |-> [i \in 1..v.n_test |-> arr[perm[i]]]]
train_test_split(arr, test_size, perm) ==
    LET v == validate_shuffle_split(Len(arr), test_size)
    IN  IF ~v.ok THEN [ok |-> FALSE, train |-> <<>>, test |-> <<>>]
        ELSE [ok    |-> TRUE,
              train |-> [i \in 1..v.n_train |-> arr[perm[v.n_test + i]]],
              test  |-> [i \in 1..v.n_test |-> arr[perm[i]]]]

\* lines 125-140 on a table df, with the permutations the two calls draw
CreateUserSplitsEarlyWrite(df, p1, p2, old) ==
    IF ~df.has_user_id THEN [outcome |-> "KeyError", files |-> old]
    ELSE LET user_ids == unique(df.user_id)
             first    == train_test_split(user_ids, TestSizeFirst, p1)
         IN  IF ~first.ok THEN [outcome |-> "ValueError", files |-> old]
             ELSE LET second == train_test_split(first.test, TestSizeSecond, p2)
                      early  == [old EXCEPT !.train = to_csv(old.train, first.train)]
                  IN  IF ~second.ok
                      THEN [outcome |-> "ValueError", files |-> early]
                      ELSE [outcome |-> "ok",
                            files |-> [train |-> early.train,
                                       val   |-> to_csv(old.val, second.train),
                                       test  |-> to_csv(old.test, second.test)]]
create_user_splits(df, p1, p2, old) ==
    IF ~df.has_user_id THEN [outcome |-> "KeyError", files |-> old]
    ELSE LET user_ids == unique(df.user_id)
             first    == train_test_split(user_ids, TestSizeFirst, p1)
         IN  IF ~first.ok THEN [outcome |-> "ValueError", files |-> old]
             ELSE LET second == train_test_split(first.test, TestSizeSecond, p2)
                  IN  IF ~second.ok
                      THEN [outcome |-> "ValueError", files |-> old]
                      ELSE [outcome |-> "ok",
                            files |-> [train |-> to_csv(old.train, first.train),
                                       val   |-> to_csv(old.val, second.train),
                                       test  |-> to_csv(old.test, second.test)]]

\* the tables: a user_id column of up to MaxRows rows, or no such column
Columns == UNION {[1..k -> UserIds] : k \in 0..MaxRows}
DataFrames == {[has_user_id |-> TRUE, user_id |-> c] : c \in Columns}
              \cup {[has_user_id |-> FALSE, user_id |-> <<>>]}
WideColumns == UNION {[1..k -> MoreUserIds] : k \in 0..MaxRowsOnce}
WideDataFrames == {[has_user_id |-> TRUE, user_id |-> c] : c \in WideColumns}
                  \cup {[has_user_id |-> FALSE, user_id |-> <<>>]}

\* RandomState(seed).permutation(n)
Unset == <<0>>
Permuted ==
    [n \in 0..MostIds |->
        {p \in [1..n -> 1..n] : \A i, j \in 1..n : p[i] = p[j] => i = j}]
permutation(n) == Permuted[n]
Draw(seed, n, used) ==
    IF ~used THEN {Unset}
    ELSE IF rng[seed][n] # Unset THEN {rng[seed][n]}
    ELSE permutation(n)
Drawn(r, seed, n, used, p) ==
    IF used THEN [r EXCEPT ![seed][n] = p] ELSE r

\* What the claims need of an input table: the set of its ids, the order in
\* which they first appear, and its number of rows.
FirstSeen(col) ==
    LET firsts == {i \in DOMAIN col : \A j \in 1..(i - 1) : col[j] # col[i]}
    IN  [k \in 1..Cardinality(firsts) |->
            col[CHOOSE i \in firsts : Cardinality({j \in firsts : j <= i}) = k]]

NoCall == [exists |-> FALSE, seed |-> 0, ids |-> {}, order |-> <<>>, rows |-> 0]
NoPrior == [replaced |-> FALSE, same_order |-> FALSE]

\* One invocation on a table of `frames`.  The sizes of the two splits are
\* computed first, to know which permutations the invocation draws.
Invoke(frames) ==
    \E df \in frames, seed \in Seeds :
    \E col \in {IF df.has_user_id THEN unique(df.user_id) ELSE <<>>} :
    \E v1 \in {validate_shuffle_split(Len(col), TestSizeFirst)} :
    \E v2 \in {validate_shuffle_split(v1.n_test, TestSizeSecond)} :
       LET n1 == Len(col)
           u1 == df.has_user_id /\ v1.ok
           n2 == v1.n_test
           u2 == u1 /\ v2.ok
       IN  \E p1 \in Draw(seed, n1, u1), p2 \in Draw(seed, n2, u2) :
           \E res \in {create_user_splits(df, p1, p2, files)} :
              LET ok  == res.outcome = "ok"
                  now == [exists |-> TRUE, seed |-> seed,
                          ids    |-> Range(df.user_id),
                          order  |-> FirstSeen(df.user_id),
                          rows   |-> Len(df.user_id)]
              IN  /\ split_dir' = TRUE
                  /\ files' = res.files
                  /\ split_result' = res.outcome
                  /\ rng' = Drawn(Drawn(rng, seed, n1, u1, p1), seed, n2, u2, p2)
                  /\ written' = IF ok THEN now ELSE written
                  /\ prior' = IF ok
                              THEN [replaced   |-> files.train.exists
                                                   /\ res.files # files,
                                    same_order |-> /\ written.exists
                                                   /\ written.seed = seed
                                                   /\ written.order = now.order
                                                   /\ written.rows # now.rows]
                              ELSE prior

\* any number of invocations on the same directory
CreateUserSplits ==
    /\ Invoke(DataFrames)
    /\ UNCHANGED <<acq_vars, sizes, lookup>>

\* the first invocation on a directory, on a table of up to five distinct ids
CreateUserSplitsOnce ==
    /\ split_result = "none"
    /\ Invoke(WideDataFrames)
    /\ UNCHANGED <<acq_vars, sizes, lookup>>

----------------------------------------------------------------------------
(* the row counts of the three files *)

NoSizes == [U |-> 0, outcome |-> "none", train |-> 0, val |-> 0, test |-> 0]

split_sizes(U) ==
    LET v1 == validate_shuffle_split(U, TestSizeFirst)
        v2 == validate_shuffle_split(v1.n_test, TestSizeSecond)
    IN  IF v1.ok /\ v2.ok
        THEN [U |-> U, outcome |-> "ok", train |-> v1.n_train,
              val |-> v2.n_train, test |-> v2.n_test]
        ELSE [U |-> U, outcome |-> "ValueError", train |-> 0, val |-> 0, test |-> 0]

SplitSizes ==
    /\ \E U \in 0..MaxUsers : sizes' = split_sizes(U)
    /\ UNCHANGED <<acq_vars, split_vars, lookup>>

----------------------------------------------------------------------------
(* mapping_tables.py *)

AgeMappingNo56 ==
    (1 :> "Under 18") @@ (18 :> "18-24") @@ (25 :> "25-34") @@ (35 :> "35-44")
    @@ (45 :> "45-49") @@ (50 :> "50-55")
age_mapping ==
    (1 :> "Under 18") @@ (18 :> "18-24") @@ (25 :> "25-34") @@ (35 :> "35-44")
    @@ (45 :> "45-49") @@ (50 :> "50-55") @@ (56 :> "56+")

occupation_mapping ==
    (0 :> "other or not specified") @@ (1 :> "academic/educator")
    @@ (2 :> "artist") @@ (3 :> "clerical/admin")
    @@ (4 :> "college/grad student") @@ (5 :> "customer service")
    @@ (6 :> "doctor/health care") @@ (7 :> "executive/managerial")
    @@ (8 :> "farmer") @@ (9 :> "homemaker") @@ (10 :> "K-12 student")
    @@ (11 :> "lawyer") @@ (12 :> "programmer") @@ (13 :> "retired")
    @@ (14 :> "sales/marketing") @@ (15 :> "scientist")
    @@ (16 :> "self-employed") @@ (17 :> "technician/engineer")
    @@ (18 :> "tradesman/craftsman") @@ (19 :> "unemployed") @@ (20 :> "writer")

\* mapping()[code] by a caller: the label, or KeyError
Get(map, code) ==
    IF code \in DOMAIN map THEN [found |-> TRUE, label |-> map[code]]
    ELSE [found |-> FALSE, label |-> ""]

NoLookup == [table |-> "none", keys |-> {}, code |-> 0, found |-> FALSE, label |-> "",
             blank |-> FALSE]

Looked(table, map, code) ==
    [table |-> table, keys |-> DOMAIN map, code |-> code,
     found |-> Get(map, code).found, label |-> Get(map, code).label,
     blank |-> \E k \in DOMAIN map : map[k] \notin STRING \/ map[k] = ""]

AgeLookup ==
    /\ \E code \in 0..MaxCode : lookup' = Looked("age", age_mapping, code)
    /\ UNCHANGED <<acq_vars, split_vars, sizes>>

OccupationLookup ==
    /\ \E code \in 0..MaxCode : lookup' = Looked("occupation", occupation_mapping, code)
    /\ UNCHANGED <<acq_vars, split_vars, sizes>>

----------------------------------------------------------------------------
(* specifications *)

Init ==
    /\ data_dir = FALSE
    /\ zip_file = "absent"
    /\ extraction = "absent"
    /\ transport = [calls |-> 0, fetches |-> 0, extractions |-> 0, faults |-> 0]
    /\ acq_result = "none"
    /\ split_dir = FALSE
    /\ files = NoFiles
    /\ rng = [s \in Seeds |-> [n \in 0..MostIds |-> Unset]]
    /\ written = NoCall
    /\ split_result = "none"
    /\ prior = NoPrior
    /\ sizes = NoSizes
    /\ lookup = NoLookup

NextAcq == DownloadAndExtract \/ DownloadFails \/ ExtractionFails
NextSplit == CreateUserSplits
NextOnce == CreateUserSplitsOnce
NextSizes == SplitSizes
NextMap == AgeLookup \/ OccupationLookup
Next == NextAcq \/ NextSplit \/ NextOnce \/ NextSizes \/ NextMap

SpecAcq == Init /\ [][NextAcq]_vars
SpecSplit == Init /\ [][NextSplit]_vars
SpecOnce == Init /\ [][NextOnce]_vars
SpecSizes == Init /\ [][NextSizes]_vars
SpecMap == Init /\ [][NextMap]_vars

Spec == Init /\ [][Next]_vars

----------------------------------------------------------------------------
(* The claims *)

NoRepeat(s) == \A i, j \in DOMAIN s : s[i] = s[j] => i = j

\* C1: after create_user_splits completes, the three files exist, none of
\* them repeats an id, their id sets are pairwise disjoint, and the union of
\* the three is exactly the set of distinct user_id values of the input table.
C1_SplitPartition ==
    split_result = "ok" =>
        /\ files.train.exists /\ files.val.exists /\ files.test.exists
        /\ NoRepeat(files.train.rows)
        /\ NoRepeat(files.val.rows)
        /\ NoRepeat(files.test.rows)
        /\ Range(files.train.rows) \cap Range(files.val.rows) = {}
        /\ Range(files.train.rows) \cap Range(files.test.rows) = {}
        /\ Range(files.val.rows) \cap Range(files.test.rows) = {}
        /\ Range(files.train.rows) \cup Range(files.val.rows)
              \cup Range(files.test.rows) = written.ids

\* an input table with duplicate rows has been split
C1_Witness ==
    /\ split_result = "ok"
    /\ written.rows > Cardinality(written.ids)
    /\ Cardinality(written.ids) = 4
    /\ Len(files.train.rows) = 2
    /\ Len(files.val.rows) = 1
    /\ Len(files.test.rows) = 1

\* C2: from a fresh directory and with no failure, after n >= 1 calls exactly
\* one fetch and one extraction have been performed in total.
C2_OneFetchOneExtraction ==
    (transport.faults = 0 /\ transport.calls >= 1) =>
        (transport.fetches = 1 /\ transport.extractions = 1)

\* three undisturbed calls have been made
C2_Witness ==
    /\ transport.faults = 0
    /\ transport.calls = 3
    /\ transport.fetches = 1
    /\ transport.extractions = 1

\* C3: whenever a call returns without error, the archive exists and the
\* complete extracted contents exist under <dir>/ml-1m.
C3_ReturnImpliesComplete ==
    acq_result = "ok" =>
        (zip_file # "absent" /\ extraction = "complete")

\* C4: for U = 100 the files hold 60, 20 and 20 ids, for U = 10 they hold
\* 6, 2 and 2, and for every positive multiple of 5 they hold 3U/5, U/5, U/5.
C4_ExactProportions ==
    /\ sizes.U = 100 =>
          (sizes.outcome = "ok" /\ sizes.train = 60 /\ sizes.val = 20 /\ sizes.test = 20)
    /\ sizes.U = 10 =>
          (sizes.outcome = "ok" /\ sizes.train = 6 /\ sizes.val = 2 /\ sizes.test = 2)
    /\ (sizes.U > 0 /\ sizes.U % 5 = 0) =>
          /\ sizes.outcome = "ok"
          /\ 5 * sizes.train = 3 * sizes.U
          /\ 5 * sizes.val = sizes.U
          /\ 5 * sizes.test = sizes.U

\* the sizes for 100 ids have been computed
C4_Witness ==
    sizes.U = 100 /\ sizes.outcome = "ok" /\ sizes.train = 60

\* C5 as stated: an invocation with the seed and the id set of the previous
\* successful one leaves the three files as they were, whatever the row
\* order of the two tables.
C5_SameSetSameFiles ==
    [][(/\ split_result' = "ok"
        /\ written.exists
        /\ written'.seed = written.seed
        /\ written'.ids = written.ids) => files' = files]_vars

\* C5 amended: an invocation with the seed of the previous successful one,
\* on a table whose distinct ids first appear in the same order, leaves the
\* three files as they were, whatever the duplicate rows of the two tables.
C5_SameOrderSameFiles ==
    [][(/\ split_result' = "ok"
        /\ written.exists
        /\ written'.seed = written.seed
        /\ written'.order = written.order) => files' = files]_vars

\* two successive invocations with the same seed and the same order of first
\* appearance, on tables with different numbers of rows
C5_Witness ==
    split_result = "ok" /\ prior.same_order /\ ~prior.replaced

\* the three files as the latest successful invocation computes them
ExpectedFiles ==
    LET first  == train_test_split(written.order, TestSizeFirst,
                                   rng[written.seed][Len(written.order)])
        second == train_test_split(first.test, TestSizeSecond,
                                   rng[written.seed][Len(first.test)])
    IN  [train |-> [exists |-> TRUE, header |-> "user_id", rows |-> first.train],
         val   |-> [exists |-> TRUE, header |-> "user_id", rows |-> second.train],
         test  |-> [exists |-> TRUE, header |-> "user_id", rows |-> second.test]]

\* C6: after a successful invocation each file holds the header and the ids
\* of its subset of that invocation, and nothing of an earlier invocation.
C6_FilesOverwritten ==
    split_result = "ok" => files = ExpectedFiles

\* a successful invocation has replaced files of different content
C6_Witness ==
    split_result = "ok" /\ prior.replaced /\ files = ExpectedFiles

\* C7: age_mapping() has exactly the 7 keys 1, 18, 25, 35, 45, 50, 56,
\* occupation_mapping() has exactly the 21 keys 0..20, and every value of
\* both is a non-empty string.
C7_MappingKeys ==
    /\ lookup.table = "age" =>
          /\ lookup.keys = {1, 18, 25, 35, 45, 50, 56}
          /\ Cardinality(lookup.keys) = 7
    /\ lookup.table = "occupation" =>
          /\ lookup.keys = 0..20
          /\ Cardinality(lookup.keys) = 21
    /\ lookup.table # "none" =>
          /\ ~lookup.blank
          /\ lookup.found <=> lookup.code \in lookup.keys
          /\ lookup.found => lookup.label # ""

\* the last age code has been looked up
C7_Witness ==
    lookup.table = "age" /\ lookup.code = 56 /\ lookup.found /\ lookup.label = "56+"

\* C8 as stated: every input of 1 to 4 distinct ids is split without error.
C8_SmallInputsComplete ==
    sizes.U \in 1..4 => sizes.outcome = "ok"

\* C8 amended: an input of 1 or 2 distinct ids ends in ValueError (the train
\* side of one of the two splits would be empty); an input of 3 or 4 is split
\* into three files none of which is empty; no successful split of any size
\* leaves a file empty.
C8_SmallInputs ==
    /\ sizes.U \in 1..2 => sizes.outcome = "ValueError"
    /\ sizes.U \in 3..4 => sizes.outcome = "ok"
    /\ sizes.outcome = "ok" =>
          (sizes.train >= 1 /\ sizes.val >= 1 /\ sizes.test >= 1)

\* two distinct ids: the first split succeeds and the second is refused
C8_Witness ==
    sizes.U = 2 /\ sizes.outcome = "ValueError"

\* C9: while a truncated archive lies at <dir>/ml-1m.zip no call fetches
\* again or replaces it.
C9_PartialArchiveKept ==
    [][zip_file = "partial" =>
          (zip_file' = "partial" /\ transport'.fetches = transport.fetches)]_vars

\* a truncated archive, no extraction directory, and two retries after the
\* interrupted fetch
C9_Witness ==
    /\ zip_file = "partial"
    /\ extraction = "absent"
    /\ acq_result = "BadZipFile"
    /\ transport.calls = 3
    /\ transport.fetches = 1

\* C10: an invocation that ends in KeyError or ValueError leaves the three
\* split files as they were.
C10_FailureWritesNothing ==
    [][split_result' \in {"KeyError", "ValueError"} => files' = files]_vars

\* a failed invocation after a successful one, whose files are still there
C10_Witness ==
    /\ split_result \in {"KeyError", "ValueError"}
    /\ written.exists
    /\ files = ExpectedFiles

====
